---- MODULE Spec2Model ----
(***************************************************************************)
(* cellaut: GooCellAut cells, each a goroutine running Start, driven by a  *)
(* Ticker whose sync.WaitGroup is the settlement barrier (main.go).        *)
(***************************************************************************)
EXTENDS Integers, Sequences, FiniteSets, TLC

(* ------------------------------ bounds -------------------------------- *)

\* cells of the general specification
NCells == 3
\* Tick() calls of the general specification
MaxTicks == 2
\* external SetState calls of the general specification
MaxSets == 2
\* AddNeighbor calls of the wiring specification
MaxCalls == 2

(* ------------------------- program constants -------------------------- *)

NeighborUp == 0
NeighborRt == 1
NeighborDn == 255
NeighborLf == 254

\* make([]CellAut, 5) of TestGooCellAut
NAuts == 5
\* the test's loop of further ticks, for i := 0; i < 10; i++
FurtherTicks == 10
\* make(chan State, 1)
ChanCap == 1
\* a map slot without a key reads as the nil channel
NilChan == 0

Dirs == {NeighborUp, NeighborRt, NeighborDn, NeighborLf}

\* type State string: GooCellAut's two states, not covered in goo (the zero value,
\* shown as "-") and covered in goo
States == {"", "X"}

\* a Recip that returns its argument
RecipSame(i) == i

\* ^i on a uint8
Recip(i) == 255 - i

VARIABLES
    toNeighbors,    \* aut.toNeighbors: cell -> direction -> channel (NilChan: no key)
    fromNeighbors,  \* aut.fromNeighbors
    nchan,          \* channels made so far; channel identities are 1..nchan
    chans,          \* the buffer of each channel made
    newState,       \* aut.newState
    state,          \* aut.state
    neighborState,  \* Start's local neighborState, between a receive and its SetState
    cpc,            \* where each cell's Start goroutine is
    rest,           \* the keys the range over aut.toNeighbors has not visited yet
    cur,            \* the key the range loop is at
    destinations,   \* ticker.destinations, as the cells that own the tick channels
    wg,             \* ticker.waitGroup's counter
    tickID,         \* ticker.tickID
    tpc,            \* where the goroutine calling Tick() is
    tidx,           \* Tick's position in its range over destinations
    done,           \* the done channel is closed
    nsets,          \* history: SetState calls the caller made
    lastSet,        \* history: the value of the caller's last SetState call on the
                    \* cell, "none" once the cell applied a neighbor's state after it
                    \* or accepted a tick signal
    refState,       \* history: aut.state in the run of the same calls in which every
                    \* cell accepts its tick signal before any neighbor state is received
    refNew,         \* history: aut.newState in that run
    accepted,       \* history: cells that accepted the current Tick()'s signal
    reacted,        \* history: cells that called AllStatesSent in the current Tick()
    zeros,          \* history: times wg went from positive to 0 in the current Tick()
    changed,        \* history: the cell's current reaction found newState != state
    sends           \* history: StateSent calls of the cell's current reaction

wiring == <<toNeighbors, fromNeighbors, nchan>>
cellvars == <<newState, state, neighborState, cpc, rest, cur>>
tickvars == <<destinations, wg, tickID, tpc, tidx, done>>
calls == <<nsets, lastSet>>
ref == <<refState, refNew>>
history == <<calls, ref, accepted, reacted, zeros, changed, sends>>
vars == <<toNeighbors, fromNeighbors, nchan, chans, newState, state, neighborState,
          cpc, rest, cur, destinations, wg, tickID, tpc, tidx, done,
          nsets, lastSet, refState, refNew,
          accepted, reacted, zeros, changed, sends>>

Cells == DOMAIN state

(* ------------------------------ wiring -------------------------------- *)

\* NewGooCellAut: both maps made empty
NewGooCellAut == [d \in Dirs |-> NilChan]

\* the link tables of n fresh cells
NewTables(n) ==
    [to |-> [c \in 0..(n - 1) |-> NewGooCellAut],
     from |-> [c \in 0..(n - 1) |-> NewGooCellAut],
     nchan |-> 0]

\* a Channels that makes channels only for an empty slot and hands out the ones a
\* populated slot holds
ChannelsReuse(w, aut, recipIndex) ==
    LET neighborIndex == Recip(recipIndex)
        fresh == w.to[aut][neighborIndex] = NilChan
        toCh == IF fresh THEN w.nchan + 1 ELSE w.to[aut][neighborIndex]
        fromCh == IF fresh THEN w.nchan + 2 ELSE w.from[aut][neighborIndex]
    IN  [to |-> [w.to EXCEPT ![aut][neighborIndex] = toCh],
         from |-> [w.from EXCEPT ![aut][neighborIndex] = fromCh],
         nchan |-> IF fresh THEN w.nchan + 2 ELSE w.nchan,
         retTo |-> fromCh,
         retFrom |-> toCh]

\* aut.Channels(recipIndex) on the tables w: two channels made, stored under
\* recipIndex.Recip(), returned as (fromNeighbors[..], toNeighbors[..])
Channels(w, aut, recipIndex) ==
    LET neighborIndex == Recip(recipIndex)
        toCh == w.nchan + 1
        fromCh == w.nchan + 2
    IN  [to |-> [w.to EXCEPT ![aut][neighborIndex] = toCh],
         from |-> [w.from EXCEPT ![aut][neighborIndex] = fromCh],
         nchan |-> w.nchan + 2,
         retTo |-> fromCh,
         retFrom |-> toCh]

\* aut.AddNeighbor(i, neighbor) on the tables w
AddNeighborTo(w, aut, i, neighbor) ==
    LET r == Channels(w, neighbor, i)
    IN  [to |-> [r.to EXCEPT ![aut][i] = r.retTo],
         from |-> [r.from EXCEPT ![aut][i] = r.retFrom],
         nchan |-> r.nchan]

\* the test's wiring of n cells in a row: auts[k].AddNeighbor(NeighborRt, auts[k+1])
\* then auts[k+1].AddNeighbor(NeighborLf, auts[k]), for k = 0, 1, ...
RECURSIVE LineTables(_, _)
LineTables(n, k) ==
    IF k = 0 THEN NewTables(n)
    ELSE AddNeighborTo(AddNeighborTo(LineTables(n, k - 1), k - 1, NeighborRt, k),
                       k, NeighborLf, k - 1)

\* n cells in a ring: the row, and auts[n-1] and auts[0] introduced to each other
RingTables(n) ==
    AddNeighborTo(AddNeighborTo(LineTables(n, n - 1), n - 1, NeighborRt, 0),
                  0, NeighborLf, n - 1)

\* auts[0].AddNeighbor(NeighborRt, auts[1]) then auts[2].AddNeighbor(NeighborRt,
\* auts[1]): the second call's Channels overwrites auts[1]'s NeighborLf slot
RewiredTables(n) ==
    AddNeighborTo(AddNeighborTo(NewTables(n), 0, NeighborRt, 1), 2, NeighborRt, 1)

\* every buffer of the channels 1..n empty, the buffers in b kept
Buffers(b, n) == [ch \in 1..n |-> IF ch \in DOMAIN b THEN b[ch] ELSE <<>>]

\* aut.AddNeighbor(i, neighbor), called while the topology is being built
AddNeighbor(aut, i, neighbor) ==
    LET w == AddNeighborTo([to |-> toNeighbors, from |-> fromNeighbors, nchan |-> nchan],
                           aut, i, neighbor)
    IN  /\ nchan < 2 * MaxCalls
        /\ \A c \in Cells : cpc[c] = "new"
        /\ toNeighbors' = w.to
        /\ fromNeighbors' = w.from
        /\ nchan' = w.nchan
        /\ chans' = Buffers(chans, w.nchan)
        /\ UNCHANGED <<cellvars, tickvars, history>>

(* ------------------------------ ticker -------------------------------- *)

\* StateSent without its Add(1)
StateSentNoAdd == wg

\* callbacks.StateSent: WaitGroup.Add(1)
StateSentCount == wg + 1

\* a StateReceived that releases two credits
StateReceivedTwice == wg - 2

\* callbacks.StateReceived: WaitGroup.Done()
StateReceivedCount == wg - 1

\* an AllStatesSent that does not call Done()
AllStatesSentNoDone == wg

\* callbacks.AllStatesSent: WaitGroup.Done()
AllStatesSentCount == wg - 1

\* Tick() adding one credit instead of one for each destination
TickAddOne == wg + 1

\* ticker.waitGroup.Add(len(ticker.destinations))
TickAddCount == wg + Len(destinations)

\* a Wait() that does not wait
WaitReturnsAlways == TRUE

\* ticker.waitGroup.Wait() returns
WaitReturns == wg = 0

\* the counter reached zero from a positive value
HitZero(new) == IF wg > 0 /\ new = 0 THEN 1 ELSE 0

\* b sends on a channel that c receives on
Feeds(b, c) ==
    \E d \in Dirs, e \in Dirs :
        toNeighbors[b][d] # NilChan /\ toNeighbors[b][d] = fromNeighbors[c][e]

\* the reference run's cells that commit at this tick and send to c
RefSenders(c) == {b \in Cells : Feeds(b, c) /\ refNew[b] # refState[b]}

\* c's newState in the reference run once the tick has settled
RefReceived(c) ==
    IF RefSenders(c) = {} THEN refNew[c] ELSE refNew[CHOOSE b \in RefSenders(c) : TRUE]

\* Tick(), up to its range over the destinations
TickAdd(limit) ==
    /\ tpc = "idle"
    /\ tickID < limit
    /\ wg' = TickAddCount
    /\ tpc' = IF Len(destinations) = 0 THEN "wait" ELSE "dispatch"
    /\ tidx' = 1
    /\ accepted' = {}
    /\ reacted' = {}
    /\ zeros' = 0
    /\ refState' = refNew
    /\ refNew' = [c \in Cells |-> RefReceived(c)]
    /\ UNCHANGED <<wiring, chans, cellvars, destinations, tickID, done,
                   calls, changed, sends>>

\* Tick(): Wait() returns, tickID++, return
TickWait ==
    /\ tpc = "wait"
    /\ WaitReturns
    /\ tickID' = tickID + 1
    /\ tpc' = "idle"
    /\ UNCHANGED <<wiring, chans, cellvars, destinations, wg, tidx, done, history>>

(* ------------------------------- cells -------------------------------- *)

\* the keys of a link map
Keys(m) == {d \in Dirs : m[d] # NilChan}

\* a cell that propagates at every tick
CommitsAlways(c) == TRUE

\* a cell that commits only what was pending when Tick() was called
CommitsGated(c) == newState[c] # state[c] /\ newState[c] = refState[c]

\* if aut.newState != aut.state
Commits(c) == newState[c] # state[c]

\* the cell Tick's range is at
Dest == destinations[tidx]

\* dest <- ticker.tickID meets case <-tick: the hand-off, the comparison and
\* aut.state = aut.newState, all local to the cell
TickSend ==
    LET c == Dest
        keys == IF Commits(c) THEN Keys(toNeighbors[c]) ELSE {}
    IN  /\ tpc = "dispatch"
        /\ cpc[c] = "select"
        /\ state' = IF Commits(c) THEN [state EXCEPT ![c] = newState[c]] ELSE state
        /\ rest' = [rest EXCEPT ![c] = keys]
        /\ cpc' = [cpc EXCEPT ![c] = IF keys = {} THEN "allsent" ELSE "range"]
        /\ tidx' = tidx + 1
        /\ tpc' = IF tidx = Len(destinations) THEN "wait" ELSE "dispatch"
        /\ accepted' = accepted \cup {c}
        /\ changed' = [changed EXCEPT ![c] = newState[c] # state[c]]
        /\ sends' = [sends EXCEPT ![c] = 0]
        /\ lastSet' = [lastSet EXCEPT ![c] = "none"]
        /\ UNCHANGED <<wiring, chans, newState, neighborState, cur, destinations,
                       wg, tickID, done, nsets, ref, reacted, zeros>>

\* the range over aut.toNeighbors takes a key (in map order: any) and calls
\* callbacks.StateSent()
StateSent(c) ==
    /\ cpc[c] = "range"
    /\ \E d \in rest[c] :
        /\ cur' = [cur EXCEPT ![c] = d]
        /\ rest' = [rest EXCEPT ![c] = rest[c] \ {d}]
    /\ wg' = StateSentCount
    /\ cpc' = [cpc EXCEPT ![c] = "send"]
    /\ sends' = [sends EXCEPT ![c] = sends[c] + 1]
    /\ UNCHANGED <<wiring, chans, newState, state, neighborState, destinations,
                   tickID, tpc, tidx, done, calls, ref, accepted, reacted, zeros,
                   changed>>

\* ch <- aut.state: blocks while the buffer is full
SendState(c) ==
    LET ch == toNeighbors[c][cur[c]]
    IN  /\ cpc[c] = "send"
        /\ Len(chans[ch]) < ChanCap
        /\ chans' = [chans EXCEPT ![ch] = Append(chans[ch], state[c])]
        /\ cpc' = [cpc EXCEPT ![c] = IF rest[c] = {} THEN "allsent" ELSE "range"]
        /\ UNCHANGED <<wiring, newState, state, neighborState, rest, cur,
                       tickvars, history>>

\* callbacks.AllStatesSent(), and back to the select
AllStatesSent(c) ==
    /\ cpc[c] = "allsent"
    /\ wg' = AllStatesSentCount
    /\ cpc' = [cpc EXCEPT ![c] = "select"]
    /\ reacted' = reacted \cup {c}
    /\ zeros' = zeros + HitZero(wg')
    /\ changed' = [changed EXCEPT ![c] = FALSE]
    /\ sends' = [sends EXCEPT ![c] = 0]
    /\ UNCHANGED <<wiring, chans, newState, state, neighborState, rest, cur,
                   destinations, tickID, tpc, tidx, done, calls, ref, accepted>>

\* case neighborState = <-aut.fromNeighbors[d]
RecvNeighbor(c, d) ==
    LET ch == fromNeighbors[c][d]
    IN  /\ cpc[c] = "select"
        /\ ch # NilChan
        /\ chans[ch] # <<>>
        /\ neighborState' = [neighborState EXCEPT ![c] = Head(chans[ch])]
        /\ chans' = [chans EXCEPT ![ch] = Tail(chans[ch])]
        /\ cpc' = [cpc EXCEPT ![c] = "received"]
        /\ UNCHANGED <<wiring, newState, state, rest, cur, tickvars, history>>

\* aut.SetState(neighborState); callbacks.StateReceived(). neighborState is dead
\* until the next receive and is cleared here.
StateReceived(c) ==
    /\ cpc[c] = "received"
    /\ newState' = [newState EXCEPT ![c] = neighborState[c]]
    /\ neighborState' = [neighborState EXCEPT ![c] = ""]
    /\ wg' = StateReceivedCount
    /\ cpc' = [cpc EXCEPT ![c] = "select"]
    /\ zeros' = zeros + HitZero(wg')
    /\ lastSet' = [lastSet EXCEPT ![c] = "none"]
    /\ UNCHANGED <<wiring, chans, state, rest, cur, destinations, tickID, tpc, tidx,
                   done, nsets, ref, accepted, reacted, changed, sends>>

\* a select without the done case
ReturnNever(c) == FALSE

\* case <-done: return
Return(c) ==
    /\ cpc[c] = "select"
    /\ done
    /\ cpc' = [cpc EXCEPT ![c] = "returned"]
    /\ UNCHANGED <<wiring, chans, newState, state, neighborState, rest, cur,
                   tickvars, history>>

(* ------------------------------ caller -------------------------------- *)

\* a SetState that sets aut.state as well
SetStateBoth(c, v) ==
    /\ tpc = "idle"
    /\ nsets < MaxSets
    /\ newState' = [newState EXCEPT ![c] = v]
    /\ state' = [state EXCEPT ![c] = v]
    /\ nsets' = nsets + 1
    /\ lastSet' = [lastSet EXCEPT ![c] = v]
    /\ refNew' = [refNew EXCEPT ![c] = v]
    /\ UNCHANGED <<wiring, chans, neighborState, cpc, rest, cur, tickvars,
                   refState, accepted, reacted, zeros, changed, sends>>

\* aut.SetState(v), called between two Tick() calls
SetState(c, v) ==
    /\ tpc = "idle"
    /\ nsets < MaxSets
    /\ newState' = [newState EXCEPT ![c] = v]
    /\ nsets' = nsets + 1
    /\ lastSet' = [lastSet EXCEPT ![c] = v]
    /\ refNew' = [refNew EXCEPT ![c] = v]
    /\ UNCHANGED <<wiring, chans, state, neighborState, cpc, rest, cur, tickvars,
                   refState, accepted, reacted, zeros, changed, sends>>

\* close(done), between two Tick() calls
CloseDone ==
    /\ tpc = "idle"
    /\ ~done
    /\ done' = TRUE
    /\ UNCHANGED <<wiring, chans, cellvars, destinations, wg, tickID, tpc, tidx, history>>

(* --------------------------- specifications --------------------------- *)

\* n cells made, wired by the tables w, every one started with its tick channel
\* registered in cell order
Started(n, w, pc, ns) ==
    /\ toNeighbors = w.to
    /\ fromNeighbors = w.from
    /\ nchan = w.nchan
    /\ chans = Buffers(<<>>, w.nchan)
    /\ newState = ns
    /\ state = [c \in 0..(n - 1) |-> ""]
    /\ neighborState = [c \in 0..(n - 1) |-> ""]
    /\ cpc = [c \in 0..(n - 1) |-> pc]
    /\ rest = [c \in 0..(n - 1) |-> {}]
    /\ cur = [c \in 0..(n - 1) |-> NeighborUp]
    /\ destinations = IF pc = "new" THEN <<>> ELSE [k \in 1..n |-> k - 1]
    /\ wg = 0
    /\ tickID = 0
    /\ tpc = "idle"
    /\ tidx = 1
    /\ done = FALSE
    /\ nsets = Cardinality({c \in 0..(n - 1) : ns[c] # ""})
    /\ lastSet = [c \in 0..(n - 1) |-> IF ns[c] = "" THEN "none" ELSE ns[c]]
    /\ refState = [c \in 0..(n - 1) |-> ""]
    /\ refNew = ns
    /\ accepted = {}
    /\ reacted = {}
    /\ zeros = 0
    /\ changed = [c \in 0..(n - 1) |-> FALSE]
    /\ sends = [c \in 0..(n - 1) |-> 0]

CellStep(c) ==
    \/ StateSent(c)
    \/ SendState(c)
    \/ AllStatesSent(c)
    \/ \E d \in Dirs : RecvNeighbor(c, d)
    \/ StateReceived(c)

\* no SetState call made yet
Empty(n) == [c \in 0..(n - 1) |-> ""]

\* auts[n / 2].SetState("X") made before the cells start
MiddleSet(n) == [c \in 0..(n - 1) |-> IF c = n \div 2 THEN "X" ELSE ""]

\* NCells cells in a row, started; the caller calls SetState and Tick()
Init == Started(NCells, LineTables(NCells, NCells - 1), "select", Empty(NCells))

Next ==
    \/ TickAdd(MaxTicks)
    \/ TickSend
    \/ TickWait
    \/ \E c \in Cells : CellStep(c)
    \/ \E c \in Cells, v \in States : SetState(c, v)

Spec == Init /\ [][Next]_vars

\* TestGooCellAut: five cells in a row, the middle one set to "X", three ticks and
\* ten more
InitLinear == Started(NAuts, LineTables(NAuts, NAuts - 1), "select", MiddleSet(NAuts))

NextLinear ==
    \/ TickAdd(3 + FurtherTicks)
    \/ TickSend
    \/ TickWait
    \/ \E c \in Cells : CellStep(c)

SpecLinear == InitLinear /\ [][NextLinear]_vars

\* NCells cells in a row, the middle one set to "X"; the caller calls Tick() and
\* closes done between two calls
InitStop == Started(NCells, LineTables(NCells, NCells - 1), "select", MiddleSet(NCells))

NextStop ==
    \/ TickAdd(MaxTicks)
    \/ TickSend
    \/ TickWait
    \/ \E c \in Cells : CellStep(c)
    \/ \E c \in Cells : Return(c)
    \/ CloseDone

SpecStop == InitStop /\ [][NextStop]_vars

\* the scheduling of n cell goroutines and of the goroutine inside Tick(): a
\* goroutine that can take a step for good takes one. Calling Tick(), SetState and
\* close(done) is up to the caller and has no fairness.
Scheduling(n) ==
    /\ WF_vars(TickSend)
    /\ WF_vars(TickWait)
    /\ \A c \in 0..(n - 1) : WF_vars(CellStep(c))
    /\ \A c \in 0..(n - 1) : WF_vars(Return(c))

SpecStopFair == SpecStop /\ Scheduling(NCells)

\* NCells cells wired before they start, in a row, in a ring or by the two calls of
\* RewiredTables, with any SetState calls made before the first Tick(); the caller
\* calls Tick() and never closes done
InitTopology ==
    \E w \in {LineTables(NCells, NCells - 1), RingTables(NCells), RewiredTables(NCells)},
       ns \in [0..(NCells - 1) -> States] :
        Started(NCells, w, "select", ns)

NextTopology ==
    \/ TickAdd(MaxTicks)
    \/ TickSend
    \/ TickWait
    \/ \E c \in Cells : CellStep(c)

SpecTopologyFair == InitTopology /\ [][NextTopology]_vars /\ Scheduling(NCells)

\* NCells cells made and not yet started; the caller introduces neighbors
InitWire == Started(NCells, NewTables(NCells), "new", Empty(NCells))

NextWire == \E aut \in Cells, neighbor \in Cells, i \in Dirs : AddNeighbor(aut, i, neighbor)

SpecWire == InitWire /\ [][NextWire]_vars

(* ------------------------------- claims ------------------------------- *)

\* the cells started with a tick channel
StartedCells == {destinations[k] : k \in 1..Len(destinations)}

\* every channel's buffer is empty
ChannelsEmpty == \A ch \in DOMAIN chans : chans[ch] = <<>>

\* C1: when Tick() has returned, every started cell has released its AllStatesSent
\* credit for that tick and is back at its select, every state sent during the tick
\* has been received and applied (no channel holds a value, no cell holds a received
\* value it has not yet applied), so GetState() sees a settled state.
SettledOnReturn ==
    (tpc = "idle" /\ tickID > 0) =>
        /\ reacted = StartedCells
        /\ \A c \in StartedCells : cpc[c] = "select"
        /\ ChannelsEmpty

\* a Tick() has returned in which a cell committed "X" and its neighbor applied it
SettledOnReturnWitness ==
    /\ tpc = "idle"
    /\ tickID = 1
    /\ nsets = 1
    /\ \E b \in Cells, c \in Cells :
        Feeds(b, c) /\ state[b] = "X" /\ state[c] = "" /\ newState[c] = "X"

\* concatStates(auts) of the test, one character per cell
concatStates ==
    [k \in 1..Cardinality(Cells) |-> IF state[k - 1] = "" THEN "-" ELSE state[k - 1]]

\* C2: in the test's scenario the snapshot is "--X--" after Tick 1, "-XXX-" after
\* Tick 2, "XXXXX" after Tick 3 and still "XXXXX" after ten further Ticks, in every
\* interleaving.
LinearScenario ==
    tpc = "idle" =>
        /\ tickID = 1 => concatStates = <<"-", "-", "X", "-", "-">>
        /\ tickID = 2 => concatStates = <<"-", "X", "X", "X", "-">>
        /\ tickID = 3 => concatStates = <<"X", "X", "X", "X", "X">>
        /\ tickID = 3 + FurtherTicks => concatStates = <<"X", "X", "X", "X", "X">>

\* C3: for the same topology and the same SetState calls made between Tick() calls,
\* the GetState() values after each Tick() are those of every other interleaving, so
\* those of the interleaving in which every cell accepts its tick signal before any
\* neighbor state is received.
SettlementDeterminism == tpc = "idle" => state = refState

\* C4: a cell that accepted a tick signal with newState equal to state calls no
\* StateSent and sends on no channel in that reaction; it is left with the one call
\* of AllStatesSent.
NoFalsePropagation ==
    \A c \in Cells :
        (cpc[c] \in {"range", "send", "allsent"} /\ ~changed[c]) =>
            (cpc[c] = "allsent" /\ sends[c] = 0 /\ rest[c] = {})

\* a cell with neighbors has accepted a tick signal with newState equal to state
NoFalsePropagationWitness ==
    \E c \in Cells :
        /\ cpc[c] = "allsent"
        /\ ~changed[c]
        /\ newState[c] = state[c]
        /\ Keys(toNeighbors[c]) # {}

\* C5: in each Tick() call the counter goes from positive to zero once, only after
\* every cell has accepted its tick signal, and Tick() returns (and increments
\* tickID) only after that.
ExactlyOnceSettlement ==
    /\ zeros \in {0, 1}
    /\ zeros = 1 => (wg = 0 /\ accepted = StartedCells /\ tpc \in {"wait", "idle"})
    /\ (tpc \in {"dispatch", "wait"} /\ zeros = 0) => wg > 0
    /\ (tpc = "idle" /\ tickID > 0) => zeros = 1

\* the counter has reached zero in a Tick() in which states were sent, and Tick()
\* has not returned yet
ExactlyOnceSettlementWitness ==
    /\ tpc = "wait"
    /\ zeros = 1
    /\ \E c \in Cells : newState[c] # state[c]

\* every cell holds the same committed state and has no other state pending
Uniform == \A c \in Cells : state[c] = state[0] /\ newState[c] = state[c]

\* no state is in a channel or held unapplied, and no cell is sending
Quiet == ChannelsEmpty /\ \A c \in Cells : cpc[c] \in {"select", "allsent"}

\* C6: from a settled state in which every cell holds the same committed state and
\* no SetState is pending, the steps of further Tick() calls change no cell's state
\* and send nothing.
IdempotentSteadyState ==
    [][(Uniform /\ Quiet /\ nsets' = nsets) => (Uniform' /\ Quiet' /\ state' = state)]_vars

\* in the last of the ten further ticks every cell, all covered in goo, has accepted
\* its tick signal and released its credit without sending
IdempotentSteadyStateWitness ==
    /\ Uniform
    /\ Quiet
    /\ state[0] = "X"
    /\ tickID = 3 + FurtherTicks - 1
    /\ tpc = "wait"
    /\ reacted = StartedCells

\* the slot holds a link pair
Populated(c, d) == toNeighbors[c][d] # NilChan \/ fromNeighbors[c][d] # NilChan

\* a's slot d and b's slot Recip(d) hold the same two distinct channels, crossed, and
\* no other slot of any cell holds either
Linked(a, d, b) ==
    /\ toNeighbors[a][d] # NilChan
    /\ fromNeighbors[a][d] # NilChan
    /\ toNeighbors[a][d] # fromNeighbors[a][d]
    /\ toNeighbors[a][d] = fromNeighbors[b][Recip(d)]
    /\ fromNeighbors[a][d] = toNeighbors[b][Recip(d)]
    /\ \A c \in Cells, e \in Dirs :
        /\ fromNeighbors[c][e] = toNeighbors[a][d] => (c = b /\ e = Recip(d))
        /\ toNeighbors[c][e] = toNeighbors[a][d] => (c = a /\ e = d)
        /\ toNeighbors[c][e] = fromNeighbors[a][d] => (c = b /\ e = Recip(d))
        /\ fromNeighbors[c][e] = fromNeighbors[a][d] => (c = a /\ e = d)

\* C7: after A.AddNeighbor(d, B), A's outgoing channel for d is the channel B
\* receives on for d.Recip(), A's incoming channel for d is the channel B sends on
\* for d.Recip(), the two are distinct, and no other slot of any cell receives what
\* A sends on d.
WiringSymmetry ==
    [][\A a \in Cells, b \in Cells, d \in Dirs :
        AddNeighbor(a, d, b) => Linked(a, d, b)']_vars

\* two different cells are linked
WiringSymmetryWitness ==
    \E a \in Cells, b \in Cells, d \in Dirs : a # b /\ Linked(a, d, b)

\* C8, as claimed: a slot that holds a link pair is never re-wired.
SlotPopulatedOnce ==
    [][\A c \in Cells, d \in Dirs :
        Populated(c, d) =>
            /\ toNeighbors'[c][d] = toNeighbors[c][d]
            /\ fromNeighbors'[c][d] = fromNeighbors[c][d]]_vars

\* C8, amended: AddNeighbor on a slot that already holds a link pair is not
\* rejected; it makes two new channels and puts them in the caller's slot d and in
\* the other cell's slot d.Recip(), in place of what they held.
RewiringReplaces ==
    [][\A a \in Cells, b \in Cells, d \in Dirs :
        (AddNeighbor(a, d, b) /\ (Populated(a, d) \/ Populated(b, Recip(d)))) =>
            /\ nchan' = nchan + 2
            /\ {toNeighbors'[a][d], fromNeighbors'[a][d]} = {nchan + 1, nchan + 2}
            /\ toNeighbors'[b][Recip(d)] = fromNeighbors'[a][d]
            /\ fromNeighbors'[b][Recip(d)] = toNeighbors'[a][d]]_vars

\* a channel that was made is in no slot any more, and the slots are wired
RewiringReplacesWitness ==
    /\ \E ch \in 1..nchan : \A c \in Cells, d \in Dirs :
        toNeighbors[c][d] # ch /\ fromNeighbors[c][d] # ch
    /\ \E a \in Cells, b \in Cells, d \in Dirs : Linked(a, d, b)

\* a cell that returned holds a state in one of its incoming channels
Undeliverable ==
    \E c \in Cells, d \in Dirs :
        /\ cpc[c] = "returned"
        /\ fromNeighbors[c][d] # NilChan
        /\ chans[fromNeighbors[c][d]] # <<>>

\* Tick() is at the hand-off to a cell that has returned
HandOffStalled == tpc = "dispatch" /\ cpc[Dest] = "returned"

\* Tick() cannot return any more
Stalled == HandOffStalled \/ (tpc \in {"dispatch", "wait"} /\ Undeliverable)

\* C9, as claimed: Tick() is never blocked for good on a hand-off or on the barrier.
NoStalledTick == ~Stalled

\* C9, amended: when a cell has returned before accepting its tick signal (or
\* before receiving a state sent to it), Tick() stays blocked for ever: it does not
\* return, tickID is not incremented, and no error is reported.
StalledForEver == [][Stalled => (Stalled' /\ tickID' = tickID /\ tpc' # "idle")]_vars

\* Tick() is at the hand-off to a cell that returned
StalledForEverWitness == HandOffStalled /\ done

\* C10: SetState changes only newState; until a neighbor's state is applied,
\* newState is the value of the last SetState call; the cell commits that value when
\* it accepts its next tick signal; and state changes at no other step, so that
\* GetState() returns the old value until that tick and the last value after it.
LastWriteWins ==
    /\ [](\A c \in Cells : lastSet[c] # "none" => newState[c] = lastSet[c])
    /\ [][\A c \in Cells :
            (c \in accepted' /\ c \notin accepted /\ lastSet[c] # "none") =>
                state'[c] = lastSet[c]]_vars
    /\ [][\A c \in Cells :
            state'[c] # state[c] => (c \in accepted' /\ c \notin accepted)]_vars
    /\ [][nsets' # nsets =>
            (state' = state /\ chans' = chans /\ wg' = wg /\ cpc' = cpc)]_vars

\* SetState was called twice on cell 0, and cell 0 has just committed "X" at the
\* first tick
LastWriteWinsWitness ==
    /\ nsets = 2
    /\ tickID = 0
    /\ accepted = {0}
    /\ cpc[0] = "range"
    /\ state[0] = "X"
    /\ \A c \in Cells : lastSet[c] = "none"

\* C11: Recip is a total involution without fixed point on the four directions:
\* d.Recip() is again a direction, d.Recip().Recip() is d, d.Recip() is not d, Up and
\* Dn are each other's Recip and so are Rt and Lf; so the slot Channels stores under
\* recipIndex.Recip() is a slot of the table, and whenever a slot d is populated a
\* slot d.Recip() is populated too.
RecipInvolution ==
    /\ \A d \in Dirs : Recip(d) \in Dirs /\ Recip(Recip(d)) = d /\ Recip(d) # d
    /\ Recip(NeighborUp) = NeighborDn
    /\ Recip(NeighborDn) = NeighborUp
    /\ Recip(NeighborRt) = NeighborLf
    /\ Recip(NeighborLf) = NeighborRt
    /\ \A c \in Cells, d \in Dirs :
        Populated(c, d) => \E b \in Cells : Populated(b, Recip(d))

\* A.AddNeighbor(d, B) then B.AddNeighbor(d.Recip(), A): the second call's Channels
\* stored its two channels under d.Recip().Recip(), A's slot d
RecipInvolutionWitness ==
    \E a \in Cells, b \in Cells, d \in Dirs :
        /\ a # b
        /\ nchan = 4
        /\ toNeighbors[a][d] = 3
        /\ fromNeighbors[a][d] = 4
        /\ toNeighbors[b][Recip(d)] = 4
        /\ fromNeighbors[b][Recip(d)] = 3

\* in the first Tick() call, c has not accepted its tick signal yet and has applied
\* a state a neighbor committed and sent in this call: newState is no longer what
\* was pending when Tick() was called
EarlyReceipt(c) ==
    /\ tickID = 0
    /\ tpc = "dispatch"
    /\ c \notin accepted
    /\ cpc[c] = "select"
    /\ newState[c] # refState[c]

HandedOff == {destinations[k] : k \in 1..(tidx - 1)}

\* C13: in each Tick() call the counter is raised by the number of registered cells
\* before the first tick signal is handed off; every hand-off is a rendezvous with
\* the cell the range is at, which has not accepted a signal of this call before;
\* and Wait() is invoked only when every registered cell has accepted its one signal.
DispatchBeforeWait ==
    /\ [](tpc = "dispatch" =>
            /\ tidx \in 1..Len(destinations)
            /\ accepted = HandedOff
            /\ Cardinality(accepted) = tidx - 1)
    /\ [](tpc = "wait" =>
            /\ accepted = StartedCells
            /\ Cardinality(accepted) = Len(destinations))
    /\ [][(tpc = "idle" /\ tpc' # "idle") =>
            /\ wg' = wg + Len(destinations)
            /\ accepted' = {}
            /\ tidx' = 1
            /\ cpc' = cpc]_vars
    /\ [][accepted' # accepted =>
            \/ tpc = "idle" /\ accepted' = {}
            \/ /\ tpc = "dispatch"
               /\ cpc[Dest] = "select"
               /\ Dest \notin accepted
               /\ accepted' = accepted \cup {Dest}
               /\ tidx' = tidx + 1]_vars
    /\ [][(tpc = "dispatch" /\ tpc' = "wait") =>
            (tidx = Len(destinations) /\ accepted' = StartedCells)]_vars

\* the second Tick() call has handed every cell its signal and is in Wait(), while
\* a cell that accepted its signal is still sending
DispatchBeforeWaitWitness ==
    /\ tickID = 1
    /\ tpc = "wait"
    /\ accepted = StartedCells
    /\ wg > 0
    /\ \E c \in Cells : cpc[c] = "send"

\* the channel c's range loop is about to send on
SendChan(c) == toNeighbors[c][cur[c]]

\* C14: with every cell running, a cell that is at ch <- aut.state finds the
\* channel's buffer empty, so the send does not block; no buffer ever holds more
\* than its one state.
SendsNeverBlock ==
    /\ \A c \in Cells :
        cpc[c] = "send" => (SendChan(c) # NilChan /\ chans[SendChan(c)] = <<>>)
    /\ \A ch \in DOMAIN chans : Len(chans[ch]) <= ChanCap

\* in the second Tick() call a cell is at its send of "", on a link that carried its
\* "X" in the first call
SendsNeverBlockWitness ==
    \E c \in Cells :
        /\ tickID = 1
        /\ cpc[c] = "send"
        /\ state[c] = ""
        /\ newState[c] = ""
        /\ chans[SendChan(c)] = <<>>

\* c accepted a tick signal and has not called AllStatesSent for it yet
HoldsCredit(c) == cpc[c] \in {"range", "send", "allsent"}

\* C15: the counter is never negative; a cell is between its commitment and its
\* AllStatesSent only inside a Tick() call whose signal it accepted and whose credit
\* it has not released, and the counter is at least 1 all that time, so at every
\* StateSent increment, and Wait() cannot return between a cell's commitment and
\* its last send.
CreditOrdering ==
    /\ wg >= 0
    /\ \A c \in Cells :
        HoldsCredit(c) =>
            /\ tpc \in {"dispatch", "wait"}
            /\ c \in accepted
            /\ c \notin reacted
            /\ wg >= 1
            /\ ~WaitReturns
    /\ \A c \in Cells : (sends[c] > 0 \/ rest[c] # {}) => HoldsCredit(c)

\* Tick() is in Wait(); a cell has made the first of its two sends and the counter
\* holds nothing but that cell's own credit
CreditOrderingWitness ==
    /\ tpc = "wait"
    /\ wg = 1
    /\ \E c \in Cells : cpc[c] = "range" /\ sends[c] = 1 /\ rest[c] # {}

\* the step changes newState of c alone
OnlyNewStateOf(c) == \A b \in Cells \ {c} : newState'[b] = newState[b]

\* C16: aut.state changes only in the cell's own reaction to a tick signal, once per
\* Tick() call, and to the newState of that moment. Taking a neighbor's state off a
\* channel and applying it, in any phase, and SetState change newState only: they
\* leave every aut.state and both link tables as they were; applying a neighbor's
\* state also releases exactly one credit, SetState none.
CommittedStateFrame ==
    [][/\ \A c \in Cells :
            state'[c] # state[c] =>
                /\ c \in accepted'
                /\ c \notin accepted
                /\ state'[c] = newState[c]
                /\ newState' = newState
                /\ \A b \in Cells \ {c} : state'[b] = state[b]
       /\ \A c \in Cells :
            (cpc[c] = "select" /\ cpc'[c] = "received") =>
                /\ state' = state
                /\ newState' = newState
                /\ wiring' = wiring
                /\ wg' = wg
       /\ \A c \in Cells :
            (cpc[c] = "received" /\ cpc'[c] = "select") =>
                /\ newState'[c] = neighborState[c]
                /\ OnlyNewStateOf(c)
                /\ state' = state
                /\ wiring' = wiring
                /\ chans' = chans
                /\ wg' = wg - 1
       /\ nsets' # nsets =>
            /\ \E c \in Cells : OnlyNewStateOf(c)
            /\ state' = state
            /\ wiring' = wiring
            /\ chans' = chans
            /\ wg' = wg]_vars

\* in the first Tick() call a cell that had nothing pending has released its credit
\* without committing, and then applied a neighbor's "X": pending, not committed
CommittedStateFrameWitness ==
    /\ tickID = 0
    /\ tpc = "wait"
    /\ \E c \in Cells :
        /\ c \in reacted
        /\ cpc[c] = "select"
        /\ refState[c] = ""
        /\ newState[c] = "X"
        /\ state[c] = ""

\* the cells that have not called AllStatesSent for the Tick() call under way
Unreleased == IF tpc = "idle" THEN {} ELSE StartedCells \ reacted

\* the states held in the buffers of channels 1..n
RECURSIVE Buffered(_)
Buffered(n) == IF n = 0 THEN 0 ELSE Len(chans[n]) + Buffered(n - 1)

\* the states for which StateSent was called and StateReceived was not: about to be
\* sent, in a buffer, or received and not yet applied
InFlight ==
    Cardinality({c \in Cells : cpc[c] = "send"})
        + Buffered(nchan)
        + Cardinality({c \in Cells : cpc[c] = "received"})

\* C19: with the cells running, the counter is the number of cells that have not
\* released their AllStatesSent credit for the Tick() call under way plus the number
\* of states for which StateSent was called and StateReceived was not; so it is 0
\* whenever Tick() is called, and Add(len(destinations)) makes it the number of
\* cells.
BarrierAccounting ==
    /\ wg = Cardinality(Unreleased) + InFlight
    /\ tpc = "idle" => wg = 0
    /\ (tpc = "dispatch" /\ tidx = 1 /\ InFlight = 0) => wg = Len(destinations)

\* Tick() is in Wait(); some cells have released their credit and some not, one
\* state is in a buffer and another is received and not yet applied
BarrierAccountingWitness ==
    /\ tpc = "wait"
    /\ reacted # {}
    /\ reacted # StartedCells
    /\ Buffered(nchan) = 1
    /\ \E c \in Cells : cpc[c] = "received"
    /\ wg = Cardinality(StartedCells \ reacted) + 2

\* C20: after any sequence of AddNeighbor calls made before the cells start, every
\* populated slot (A, d) is wired to a cell B: A.toNeighbors[d] is the channel
\* B.fromNeighbors[d.Recip()], A.fromNeighbors[d] is the channel
\* B.toNeighbors[d.Recip()], and no other slot sends or receives on either.
MutualIntroduction ==
    \A a \in Cells, d \in Dirs :
        Populated(a, d) => \E b \in Cells : Linked(a, d, b)

\* every cell's Start has returned
AllReturned == \A c \in Cells : cpc[c] = "returned"

\* C18: once done is closed (between two Tick() calls, so after a settled tick),
\* every cell's Start eventually returns, none being blocked for ever on a neighbor;
\* a cell that has returned stays returned and commits nothing, sends nothing and
\* applies nothing any more.
StopObserved ==
    /\ done ~> AllReturned
    /\ [][\A c \in Cells :
            cpc[c] = "returned" =>
                /\ cpc'[c] = "returned"
                /\ state'[c] = state[c]
                /\ newState'[c] = newState[c]
                /\ sends'[c] = sends[c]
                /\ \A d \in Keys(toNeighbors[c]) :
                    Len(chans'[toNeighbors[c][d]]) <= Len(chans[toNeighbors[c][d]])]_vars

\* done was closed after the first Tick() returned, and every cell has returned
StopObservedWitness ==
    /\ done
    /\ tickID = 1
    /\ tpc = "idle"
    /\ AllReturned

\* C17: with every cell started and done never closed, under fair scheduling every
\* Tick() call returns, whatever the static topology.
TickReturns == (tpc # "idle") ~> (tpc = "idle")

\* a state sent on a channel that is in no cell's fromNeighbors
SentToNobody ==
    \E ch \in DOMAIN chans :
        /\ chans[ch] # <<>>
        /\ \A c \in Cells, d \in Dirs : fromNeighbors[c][d] # ch

\* on the topologies whose slots are all linked (the row, with its pairs of cells
\* that change state in the same tick, and the ring) every Tick() call returns; a
\* Tick() call in which a state was sent on a channel nobody receives on never
\* returns
TickReturnsWhenLinked ==
    /\ (MutualIntroduction /\ tpc # "idle") ~> (tpc = "idle")
    /\ [][SentToNobody => (SentToNobody' /\ tpc' # "idle")]_vars

====
